---- MODULE Spec2Model ----
(***************************************************************************)
(* A model of AdvancedAnomalyDetector (advanced_anomaly_detector.py): the  *)
(* bounded process history, the training of the standardizer and of the    *)
(* outlier model, detection, the rule-based reason and the report.         *)
(*                                                                         *)
(* Numbers.  Metrics are integers.  The standardizer's statistics are kept *)
(* exactly, scaled by the number n of training rows:                       *)
(*     mean_n  = n * mean        (the column sum)                          *)
(*     var_n2  = n^2 * variance  (n * sum of squares - (column sum)^2)     *)
(*     scale_n2 = n^2 * scale^2                                            *)
(* and a standardized value is the pair [num, den2] that stands for        *)
(* num / sqrt(den2); den2 = 0 stands for a division by zero (NaN/inf).     *)
(*                                                                         *)
(* The isolation forest itself is not computed: a fitted model is the      *)
(* matrix it was fitted on, and predict may label any subset of the rows   *)
(* as outliers.  The report's wall-clock timestamp is left out.            *)
(***************************************************************************)
EXTENDS Integers, Sequences, FiniteSets, TLC

VARIABLES
    process_history,  \* self.process_history: the deque of batches
    scaler,           \* self.scaler: the StandardScaler's fitted state
    model,            \* self.model: the IsolationForest's fitted state
    is_trained,       \* self.is_trained
    out,              \* the last call: its name, arguments as left, result
    appended,         \* history variable: every batch appended so far
    first_train       \* history variable: the buffer at the first successful training

vars == <<process_history, scaler, model, is_trained, out, appended, first_train>>

\* ------------------------------------------------------------------ bounds

\* history_size, the constructor's parameter (default 100), kept small
history_size == 2

\* the number of update_history calls explored
MaxAppends == 3

\* ------------------------------------------------------------ metric samples

Proc(pid, name, cpu, mem, thr, fds, conn, files) ==
    [pid |-> pid, name |-> name, cpu_percent |-> cpu, memory_percent |-> mem,
     num_threads |-> thr, num_fds |-> fds, num_connections |-> conn,
     num_files |-> files]

\* the processes a sampling pass can see, in pid order
ProcPool ==
    << Proc(1, "init", 10, 5, 4, 3, 0, 2),
       Proc(2, "web", 95, 5, 4, 8, 60, 2) >>

\* what one collect_process_metrics pass can return: some of the processes,
\* in the order psutil lists them
collect_process_metrics ==
    { SelectSeq(ProcPool, LAMBDA p : p.pid \in S) : S \in SUBSET (1..Len(ProcPool)) }

FeatureKeys ==
    {"cpu_percent", "memory_percent", "num_threads", "num_connections", "num_files"}

\* a record that lacks a feature field, as a caller of detect_anomalies may pass
MalformedProc ==
    [pid |-> 9, name |-> "bad", memory_percent |-> 5, num_threads |-> 4,
     num_fds |-> 3, num_connections |-> 0, num_files |-> 2]

\* the lists a caller passes to detect_anomalies
DetectInputs ==
    collect_process_metrics \cup { <<MalformedProc>>, <<ProcPool[1], MalformedProc>> }

WellFormed(processes) ==
    \A i \in 1..Len(processes) : FeatureKeys \subseteq DOMAIN processes[i]

\* lines 81-87 and 123-129: the fixed-order feature vector of a sample
FeatureVector(proc) ==
    << proc.cpu_percent, proc.memory_percent, proc.num_threads,
       proc.num_connections, proc.num_files >>

NumFeatures == 5

\* ------------------------------------------------------------ history buffer

\* a faulty deque: it never evicts
DequeAppendNoEvict(d, x, maxlen) == Append(d, x)

\* collections.deque(maxlen=...).append: the oldest element goes when full
DequeAppend(d, x, maxlen) ==
    IF maxlen = 0 THEN d
    ELSE IF Len(d) >= maxlen THEN Append(Tail(d), x)
    ELSE Append(d, x)

RECURSIVE Flatten(_)
\* lines 78-88: every sample of every batch, in batch order then in-batch order
Flatten(history) ==
    IF history = <<>> THEN <<>>
    ELSE [i \in 1..Len(Head(history)) |-> FeatureVector(Head(history)[i])]
         \o Flatten(Tail(history))

\* prepare_training_data: None on an empty history, else the matrix
prepare_training_data(history) ==
    IF history = <<>> THEN [none |-> TRUE, rows |-> <<>>]
    ELSE [none |-> FALSE, rows |-> Flatten(history)]

\* ------------------------------------------------------------- standardizer

RECURSIVE SumSeq(_)
SumSeq(s) == IF s = <<>> THEN 0 ELSE Head(s) + SumSeq(Tail(s))

Column(X, j) == [i \in 1..Len(X) |-> X[i][j]]

SquaredColumn(X, j) == [i \in 1..Len(X) |-> X[i][j] * X[i][j]]

UnfittedScaler ==
    [fitted |-> FALSE, n |-> 0,
     mean_n |-> [j \in 1..NumFeatures |-> 0],
     var_n2 |-> [j \in 1..NumFeatures |-> 0],
     scale_n2 |-> [j \in 1..NumFeatures |-> 0],
     fit_X |-> <<>>]

\* a faulty scaler: a zero standard deviation is kept as the divisor
NoZeroHandling(var_n2, n) == var_n2

\* StandardScaler: a zero standard deviation is replaced by a scale of 1
HandleZerosInScale(var_n2, n) == IF var_n2 = 0 THEN n * n ELSE var_n2

\* StandardScaler.fit: per-column mean and (population) variance of X
ScalerFit(X) ==
    LET n == Len(X)
        mean_n == [j \in 1..NumFeatures |-> SumSeq(Column(X, j))]
        var_n2 == [j \in 1..NumFeatures |->
                      n * SumSeq(SquaredColumn(X, j)) - mean_n[j] * mean_n[j]]
    IN  [fitted |-> TRUE, n |-> n, mean_n |-> mean_n, var_n2 |-> var_n2,
         scale_n2 |-> [j \in 1..NumFeatures |-> HandleZerosInScale(var_n2[j], n)],
         fit_X |-> X]

\* StandardScaler.transform: (x - mean) / scale, with the fitted statistics
ScalerTransform(sc, X) ==
    [i \in 1..Len(X) |->
        [j \in 1..NumFeatures |->
            [num |-> sc.n * X[i][j] - sc.mean_n[j], den2 |-> sc.scale_n2[j]]]]

\* ------------------------------------------------------------ outlier model

UnfittedModel == [fitted |-> FALSE, fit_X |-> <<>>, raw_X |-> <<>>]

\* IsolationForest.fit(scaled_data); raw_X remembers the rows it came from
ModelFit(scaled, X) == [fitted |-> TRUE, fit_X |-> scaled, raw_X |-> X]

\* ----------------------------------------------------------------- training

\* a faulty size check: only the empty history is refused
InsufficientDataNoneOnly(data) == data.none

\* a faulty size check: one sample too few is accepted
InsufficientDataOffByOne(data) == data.none \/ Len(data.rows) < history_size - 1

\* line 95: data is None or len(data) < self.history_size
InsufficientData(data) == data.none \/ Len(data.rows) < history_size

\* a faulty try block: is_trained is set before self.model.fit is called
TrainTryFlagEarly(X, sc, mdl, trained, fit_ok) ==
    LET sc2 == ScalerFit(X)
        scaled == ScalerTransform(sc2, X)
    IN  IF fit_ok
        THEN [scaler |-> sc2, model |-> ModelFit(scaled, X),
              is_trained |-> TRUE, ret |-> TRUE]
        ELSE [scaler |-> sc2, model |-> mdl, is_trained |-> TRUE, ret |-> FALSE]

\* lines 99-111: the try block; fit_ok is whether self.model.fit returns
TrainTry(X, sc, mdl, trained, fit_ok) ==
    LET sc2 == ScalerFit(X)
        scaled == ScalerTransform(sc2, X)
    IN  IF fit_ok
        THEN [scaler |-> sc2, model |-> ModelFit(scaled, X),
              is_trained |-> TRUE, ret |-> TRUE]
        ELSE [scaler |-> sc2, model |-> mdl, is_trained |-> trained, ret |-> FALSE]

\* train_model
train_model(history, sc, mdl, trained, fit_ok) ==
    LET data == prepare_training_data(history)
    IN  IF InsufficientData(data)
        THEN [scaler |-> sc, model |-> mdl, is_trained |-> trained, ret |-> FALSE]
        ELSE TrainTry(data.rows, sc, mdl, trained, fit_ok)

\* ------------------------------------------------------------------ reasons

RECURSIVE Join(_)
\* ", ".join(reasons)
Join(reasons) ==
    IF reasons = <<>> THEN ""
    ELSE IF Len(reasons) = 1 THEN reasons[1]
    ELSE reasons[1] \o ", " \o Join(Tail(reasons))

\* faulty rules: the CPU threshold is inclusive
ReasonsInclusive(process) ==
    (IF process.cpu_percent >= 80 THEN <<"High CPU usage">> ELSE <<>>)
    \o (IF process.memory_percent > 80 THEN <<"High memory usage">> ELSE <<>>)
    \o (IF process.num_connections > 50 THEN <<"Unusual network activity">> ELSE <<>>)
    \o (IF process.num_threads > 100 THEN <<"High thread count">> ELSE <<>>)
    \o (IF process.num_files > 100 THEN <<"Many open files">> ELSE <<>>)

\* lines 152-163: the labels of the rules that fire, in the order tested
Reasons(process) ==
    (IF process.cpu_percent > 80 THEN <<"High CPU usage">> ELSE <<>>)
    \o (IF process.memory_percent > 80 THEN <<"High memory usage">> ELSE <<>>)
    \o (IF process.num_connections > 50 THEN <<"Unusual network activity">> ELSE <<>>)
    \o (IF process.num_threads > 100 THEN <<"High thread count">> ELSE <<>>)
    \o (IF process.num_files > 100 THEN <<"Many open files">> ELSE <<>>)

\* get_anomaly_reason
get_anomaly_reason(process) ==
    IF Reasons(process) # <<>> THEN Join(Reasons(process))
    ELSE "Unusual behavior pattern"

\* ---------------------------------------------------------------- detection

\* line 140: processes[i]['anomaly_reason'] = ..., written into the caller's record
Annotate(proc) == ("anomaly_reason" :> get_anomaly_reason(proc)) @@ proc

RECURSIVE Flagged(_, _, _)
\* lines 137-141: the flagged records, in input order
Flagged(processes, labels, i) ==
    IF i > Len(processes) THEN <<>>
    ELSE (IF i \in labels THEN <<Annotate(processes[i])>> ELSE <<>>)
         \o Flagged(processes, labels, i + 1)

\* what makes the try block of lines 119-144 raise: a record without a feature
\* key (KeyError), an empty matrix handed to transform (ValueError), a scaler
\* or a model that was never fitted (NotFittedError)
DetectRaises(processes, sc, mdl) ==
    \/ ~WellFormed(processes)
    \/ processes = <<>>
    \/ ~sc.fitted
    \/ ~mdl.fitted

\* a faulty call: fit_transform in place of transform refits the scaler
FitTransformCall(sc, current_data) ==
    [scaler |-> ScalerFit(current_data),
     scaled |-> ScalerTransform(ScalerFit(current_data), current_data)]

\* line 133: self.scaler.transform(current_data); the scaler is only read
TransformCall(sc, current_data) ==
    [scaler |-> sc, scaled |-> ScalerTransform(sc, current_data)]

\* detect_anomalies; labels are the rows self.model.predict marks -1
detect_anomalies(processes, labels, sc, mdl, trained) ==
    IF ~trained
    THEN [ret |-> <<>>, processes |-> processes, raised |-> FALSE,
          scaled |-> <<>>, scaler |-> sc]
    ELSE IF DetectRaises(processes, sc, mdl)
    THEN [ret |-> <<>>, processes |-> processes, raised |-> FALSE,
          scaled |-> <<>>, scaler |-> sc]
    ELSE LET current_data == [i \in 1..Len(processes) |-> FeatureVector(processes[i])]
             t == TransformCall(sc, current_data)
         IN  [ret |-> Flagged(processes, labels, 1),
              processes |-> [i \in 1..Len(processes) |->
                                IF i \in labels THEN Annotate(processes[i])
                                ELSE processes[i]],
              raised |-> FALSE,
              scaled |-> t.scaled,
              scaler |-> t.scaler]

\* ------------------------------------------------------------------- report

\* lines 177-184: one entry of the report
ReportEntry(proc) ==
    [pid |-> proc.pid, name |-> proc.name, reason |-> proc.anomaly_reason,
     cpu_percent |-> proc.cpu_percent, memory_percent |-> proc.memory_percent,
     connections |-> proc.num_connections]

\* a faulty report: total_processes counts the oldest batch of the buffer
generate_report_oldest(history, anomalies) ==
    [total_processes |-> IF history # <<>> THEN Len(history[1]) ELSE 0,
     anomaly_count |-> Len(anomalies),
     anomalies |-> [i \in 1..Len(anomalies) |-> ReportEntry(anomalies[i])]]

\* generate_report
generate_report(history, anomalies) ==
    [total_processes |-> IF history # <<>> THEN Len(history[Len(history)]) ELSE 0,
     anomaly_count |-> Len(anomalies),
     anomalies |-> [i \in 1..Len(anomalies) |-> ReportEntry(anomalies[i])]]

\* the lists of anomaly records detect_anomalies can return
AnomalyLists ==
    { [i \in 1..Len(b) |-> Annotate(b[i])] : b \in collect_process_metrics }

\* -------------------------------------------------------------- the machine

NoReport == [total_processes |-> 0, anomaly_count |-> 0, anomalies |-> <<>>]

\* the shape of out; op names the call, the other fields are what it left
NoOut ==
    [op |-> "init", processes |-> <<>>, ret |-> FALSE, anomalies |-> <<>>,
     raised |-> FALSE, scaled |-> <<>>, report |-> NoReport, reason |-> "",
     train_called |-> FALSE, detect_called |-> FALSE, reported |-> FALSE]

NoTraining == [done |-> FALSE, batches |-> 0, samples |-> 0]

\* __init__
Init ==
    /\ process_history = <<>>
    /\ scaler = UnfittedScaler
    /\ model = UnfittedModel
    /\ is_trained = FALSE
    /\ out = NoOut
    /\ appended = <<>>
    /\ first_train = NoTraining

\* update_history: one sampling pass, appended to the deque
UpdateHistory ==
    \E current_metrics \in collect_process_metrics :
        /\ Len(appended) < MaxAppends
        /\ process_history' = DequeAppend(process_history, current_metrics, history_size)
        /\ appended' = Append(appended, current_metrics)
        /\ out' = [NoOut EXCEPT !.op = "update_history"]
        /\ UNCHANGED <<scaler, model, is_trained, first_train>>

\* train_model; the fit of the ensemble may raise
TrainModel ==
    \E fit_ok \in BOOLEAN :
        LET r == train_model(process_history, scaler, model, is_trained, fit_ok)
        IN  /\ scaler' = r.scaler
            /\ model' = r.model
            /\ is_trained' = r.is_trained
            /\ out' = [NoOut EXCEPT !.op = "train_model", !.ret = r.ret]
            /\ first_train' =
                   IF r.ret /\ ~first_train.done
                   THEN [done |-> TRUE, batches |-> Len(process_history),
                         samples |-> Len(Flatten(process_history))]
                   ELSE first_train
            /\ UNCHANGED <<process_history, appended>>

\* detect_anomalies(processes)
DetectAnomalies ==
    \E processes \in DetectInputs :
        \E labels \in SUBSET (1..Len(processes)) :
            LET r == detect_anomalies(processes, labels, scaler, model, is_trained)
            IN  /\ out' = [NoOut EXCEPT !.op = "detect_anomalies",
                                        !.processes = r.processes,
                                        !.anomalies = r.ret,
                                        !.raised = r.raised,
                                        !.scaled = r.scaled]
                /\ scaler' = r.scaler
                /\ UNCHANGED <<process_history, model, is_trained,
                               appended, first_train>>

\* generate_report(anomalies)
GenerateReport ==
    \E anomalies \in AnomalyLists :
        /\ out' = [NoOut EXCEPT !.op = "generate_report",
                                !.anomalies = anomalies,
                                !.report = generate_report(process_history, anomalies)]
        /\ UNCHANGED <<process_history, scaler, model, is_trained,
                       appended, first_train>>

Next == UpdateHistory \/ TrainModel \/ DetectAnomalies \/ GenerateReport

Spec == Init /\ [][Next]_vars

\* ------------------------------------------- get_anomaly_reason on its own

\* samples around every threshold of get_anomaly_reason
SampleSpace ==
    { Proc(7, "sample", c, m, t, 0, n, f) :
        c \in {0, 80, 81}, m \in {0, 80, 81}, t \in {0, 100, 101},
        n \in {0, 50, 51}, f \in {0, 100, 101} }

InitReason ==
    /\ process_history = <<>>
    /\ scaler = UnfittedScaler
    /\ model = UnfittedModel
    /\ is_trained = FALSE
    /\ appended = <<>>
    /\ first_train = NoTraining
    /\ \E process \in SampleSpace : out = [NoOut EXCEPT !.processes = <<process>>]

\* get_anomaly_reason(process)
ReasonCall ==
    /\ out.op = "init"
    /\ out' = [out EXCEPT !.op = "get_anomaly_reason",
                          !.reason = get_anomaly_reason(out.processes[1])]
    /\ UNCHANGED <<process_history, scaler, model, is_trained, appended, first_train>>

NextReason == ReasonCall

SpecReason == InitReason /\ [][NextReason]_vars

\* ------------------------------------- ProcessMonitorUI.check_anomalies

\* a faulty handler: the model is trained on every click
TrainAlways(trained) == TRUE

\* process_monitor_ui.py line 157: if not self.anomaly_detector.is_trained
TrainNeeded(trained) == ~trained

\* check_anomalies, the handler of the button: update_history (batch), then
\* train_model if needed, then a second sampling pass (current_metrics),
\* detect_anomalies on it and generate_report.  Saving the report to a file
\* and the status label are left out.
check_anomalies(history, sc, mdl, trained, batch, fit_ok, current_metrics, labels) ==
    LET h == DequeAppend(history, batch, history_size)
        need == TrainNeeded(trained)
        t == IF need THEN train_model(h, sc, mdl, trained, fit_ok)
             ELSE [scaler |-> sc, model |-> mdl, is_trained |-> trained, ret |-> FALSE]
    IN  IF need /\ ~t.ret
        THEN \* line 160-162: "Need more data to train model", return
             [process_history |-> h, scaler |-> t.scaler, model |-> t.model,
              is_trained |-> t.is_trained, train_called |-> TRUE, ret |-> FALSE,
              detect_called |-> FALSE, reported |-> FALSE, processes |-> <<>>,
              anomalies |-> <<>>, scaled |-> <<>>, report |-> NoReport]
        ELSE LET d == detect_anomalies(current_metrics, labels, t.scaler, t.model,
                                       t.is_trained)
             IN  [process_history |-> h, scaler |-> d.scaler, model |-> t.model,
                  is_trained |-> t.is_trained, train_called |-> need, ret |-> t.ret,
                  detect_called |-> TRUE, reported |-> TRUE,
                  processes |-> d.processes, anomalies |-> d.ret,
                  scaled |-> d.scaled, report |-> generate_report(h, d.ret)]

\* one click of the "detect anomalies" button
CheckAnomalies ==
    \E batch \in collect_process_metrics, fit_ok \in BOOLEAN,
       current_metrics \in collect_process_metrics :
        \E labels \in SUBSET (1..Len(current_metrics)) :
            LET r == check_anomalies(process_history, scaler, model, is_trained,
                                     batch, fit_ok, current_metrics, labels)
            IN  /\ Len(appended) < MaxAppends
                /\ process_history' = r.process_history
                /\ appended' = Append(appended, batch)
                /\ scaler' = r.scaler
                /\ model' = r.model
                /\ is_trained' = r.is_trained
                /\ first_train' =
                       IF r.ret /\ ~first_train.done
                       THEN [done |-> TRUE, batches |-> Len(r.process_history),
                             samples |-> Len(Flatten(r.process_history))]
                       ELSE first_train
                /\ out' = [NoOut EXCEPT !.op = "check_anomalies",
                                        !.train_called = r.train_called,
                                        !.ret = r.ret,
                                        !.detect_called = r.detect_called,
                                        !.reported = r.reported,
                                        !.processes = r.processes,
                                        !.anomalies = r.anomalies,
                                        !.scaled = r.scaled,
                                        !.report = r.report]

NextUI == CheckAnomalies

\* the detector as the window drives it: by clicks alone
SpecUI == Init /\ [][NextUI]_vars

\* ------------------------------------------------------------------ claims

Min(a, b) == IF a <= b THEN a ELSE b

LastN(s, n) == SubSeq(s, Len(s) - n + 1, Len(s))

FlatLen(history) == Len(Flatten(history))

\* C1: the history buffer never holds more than history_size batches, and
\* after k appends it holds exactly the last min(k, history_size) appended
\* batches, in append order.
C1_BoundedFifo ==
    /\ Len(process_history) <= history_size
    /\ process_history = LastN(appended, Min(Len(appended), history_size))

\* C1: a batch was appended to a full buffer, so the oldest one was evicted
C1_Witness ==
    /\ out.op = "update_history"
    /\ Len(appended) > history_size
    /\ appended[1] # appended[Len(appended)]

\* C2: as long as no train_model call has succeeded, detect_anomalies returns
\* the empty list for every input, well-formed or not, raises nothing and
\* leaves is_trained false.
C2_NotTrainedEmpty ==
    (out.op = "detect_anomalies" /\ ~first_train.done) =>
        /\ out.anomalies = <<>>
        /\ ~out.raised
        /\ ~is_trained

\* C2: detection of a malformed batch after a training attempt that failed
C2_Witness ==
    /\ out.op = "detect_anomalies"
    /\ ~first_train.done
    /\ scaler.fitted
    /\ ~WellFormed(out.processes)

\* C3: a train_model call on a history that flattens to fewer than
\* history_size samples returns False, raises nothing, and leaves is_trained,
\* the scaler and the model as they were.
C3_InsufficientData ==
    [][ (out'.op = "train_model" /\ FlatLen(process_history) < history_size) =>
            /\ out'.ret = FALSE
            /\ ~out'.raised
            /\ UNCHANGED <<scaler, model, is_trained>> ]_vars

\* C3: a training call refused on a non-empty history that is too short
C3_Witness ==
    /\ out.op = "train_model"
    /\ out.ret = FALSE
    /\ process_history # <<>>
    /\ FlatLen(process_history) < history_size

\* C4 as stated: once trained, the buffer held history_size batches at the
\* first successful training.
C4_BufferFullAtFirstTraining ==
    is_trained => (first_train.done /\ first_train.batches = history_size)

\* C4, amended: once trained, the history flattened to at least history_size
\* samples at the first successful training (the buffer need not have been full).
C4_EnoughSamplesAtFirstTraining ==
    is_trained => (first_train.done /\ first_train.samples >= history_size)

\* C4: trained on a buffer that was not full
C4_Witness ==
    /\ is_trained
    /\ out.op = "train_model"
    /\ first_train.batches < history_size

\* C5: whenever the detector is trained, the scaler's statistics and the
\* ensemble were built from the same training data.
C5_ScalerAndModelAgree ==
    is_trained => (scaler.fitted /\ model.fitted /\ scaler.fit_X = model.raw_X)

\* C6: detect_anomalies on a trained detector with a malformed record fails
\* with an error the caller can tell from an ordinary empty result.
C6_MalformedFailsFast ==
    (out.op = "detect_anomalies" /\ is_trained /\ ~WellFormed(out.processes)) =>
        out.raised

RuleLabels ==
    << "High CPU usage", "High memory usage", "Unusual network activity",
       "High thread count", "Many open files" >>

RuleFires(k, p) ==
    CASE k = 1 -> p.cpu_percent > 80
      [] k = 2 -> p.memory_percent > 80
      [] k = 3 -> p.num_connections > 50
      [] k = 4 -> p.num_threads > 100
      [] k = 5 -> p.num_files > 100

RECURSIVE JoinFired(_, _)
JoinFired(k, fired) ==
    IF k > Len(RuleLabels) THEN ""
    ELSE IF k \in fired
         THEN RuleLabels[k]
              \o (IF \E m \in fired : m > k THEN ", " ELSE "")
              \o JoinFired(k + 1, fired)
         ELSE JoinFired(k + 1, fired)

\* C8: get_anomaly_reason returns the labels of exactly the rules that fire
\* (each strict), in the fixed order, joined by ", "; and the fallback
\* "Unusual behavior pattern" if and only if no rule fires.
C8_Reasons ==
    out.op = "get_anomaly_reason" =>
        LET p == out.processes[1]
            fired == { k \in 1..Len(RuleLabels) : RuleFires(k, p) }
        IN  /\ (fired = {}) <=> (out.reason = "Unusual behavior pattern")
            /\ fired # {} => out.reason = JoinFired(1, fired)

\* C8: a sample with values on a threshold (no rule) and above it (rules fire)
C8_Witness ==
    /\ out.op = "get_anomaly_reason"
    /\ out.processes[1].cpu_percent = 80
    /\ out.processes[1].num_threads = 101
    /\ out.processes[1].num_files = 101
    /\ out.reason = "High thread count, Many open files"

\* C9: the report's anomaly_count is the length of its anomalies list, the
\* list has one entry per input record, in input order, with that record's
\* pid, name, reason, cpu_percent, memory_percent and connection count, and
\* total_processes is the size of the newest batch of the buffer (0 if empty).
C9_Report ==
    out.op = "generate_report" =>
        LET r == out.report
            a == out.anomalies
        IN  /\ r.anomaly_count = Len(r.anomalies)
            /\ Len(r.anomalies) = Len(a)
            /\ \A i \in 1..Len(a) :
                   /\ r.anomalies[i].pid = a[i].pid
                   /\ r.anomalies[i].name = a[i].name
                   /\ r.anomalies[i].reason = a[i].anomaly_reason
                   /\ r.anomalies[i].cpu_percent = a[i].cpu_percent
                   /\ r.anomalies[i].memory_percent = a[i].memory_percent
                   /\ r.anomalies[i].connections = a[i].num_connections
            /\ r.total_processes =
                   IF process_history = <<>> THEN 0
                   ELSE Len(process_history[Len(process_history)])

\* C9: a report of two records over a buffer whose newest batch has one
\* process and whose oldest has none
C9_Witness ==
    /\ out.op = "generate_report"
    /\ Len(out.anomalies) = 2
    /\ Len(process_history) = history_size
    /\ Len(process_history[1]) = 0
    /\ out.report.total_processes = 1

\* the scored rows of the last detection that reached the scaler
Scored == out.op = "detect_anomalies" /\ out.scaled # <<>>

C11_ClickCycle ==
    [][ out'.op = "check_anomalies" =>
            /\ Len(appended') = Len(appended) + 1
            /\ process_history' # <<>>
            /\ process_history'[Len(process_history')] = appended'[Len(appended')]
            /\ out'.train_called <=> ~is_trained
            /\ out'.ret =>
                   (out'.train_called /\ scaler'.fit_X = Flatten(process_history'))
            /\ is_trained => UNCHANGED <<scaler, model, is_trained>>
            /\ (out'.detect_called \/ out'.reported) => is_trained'
            /\ (out'.train_called /\ ~out'.ret) =>
                   (~out'.detect_called /\ ~out'.reported) ]_vars

\* C11: a click on a trained detector, after a click whose training failed
\* left the scaler fitted: no training, a detection and a report
C11_Witness ==
    /\ out.op = "check_anomalies"
    /\ ~out.train_called
    /\ out.detect_called
    /\ out.reported
    /\ Len(appended) = MaxAppends
    /\ first_train.batches = Len(appended) - 1

\* C12: in every report a click produces, anomaly_count is at most
\* total_processes.
C12_CountWithinTotal ==
    (out.op = "check_anomalies" /\ out.reported) =>
        out.report.anomaly_count <= out.report.total_processes

====
